---- MODULE Spec2Model ----
(***************************************************************************)
(* SciAnim animation engine: the Tween state machine, the value            *)
(* interpolation performed inside Tween.update, the Timeline scheduler     *)
(* and the Scene registry of standalone tweens (src/SciAnim.js).           *)
(*                                                                         *)
(* Times are counted in integer ticks.  JavaScript numbers are modelled    *)
(* as exact rationals <<n, d>> in lowest terms with d > 0; d = 0 stands    *)
(* for NaN and the infinities.                                             *)
(***************************************************************************)
EXTENDS Integers, Sequences, FiniteSets, TLC

\* ------------------------------------------------------------------------
\* Bounds of the model
\* ------------------------------------------------------------------------
\* operations performed on one timeline / one tween pool
MaxSteps == 3
\* largest time a caller passes to seek, largest start time passed to add
MaxTime == 3
\* largest deltaTime a caller passes to update
MaxDt == 3

\* v bound to the parameter of F: a value computed once and used many times
Then(v, F(_)) == F(v)

\* ------------------------------------------------------------------------
\* Rational arithmetic (JavaScript numbers)
\* ------------------------------------------------------------------------
Abs(n) == IF n < 0 THEN -n ELSE n

RECURSIVE GCD(_, _)
GCD(a, b) == IF b = 0 THEN a ELSE GCD(b, a % b)

\* n / d; a denominator 0 gives NaN <<0, 0>>, Infinity <<1, 0>> or -Infinity
Q(n, d) ==
    LET g == GCD(Abs(n), Abs(d))
        s == IF d < 0 THEN -1 ELSE 1
    IN  IF n = 0 /\ d = 0 THEN <<0, 0>> ELSE <<(s * n) \div g, (s * d) \div g>>

QIsNaN(a) == a = <<0, 0>>

QI(n) == <<n, 1>>
QAdd(a, b) == Q(a[1] * b[2] + b[1] * a[2], a[2] * b[2])
QSub(a, b) == Q(a[1] * b[2] - b[1] * a[2], a[2] * b[2])
QMul(a, b) == Q(a[1] * b[1], a[2] * b[2])
QDiv(a, b) == Q(a[1] * b[2], a[2] * b[1])
\* every comparison with NaN is false; Math.min and Math.max of NaN are NaN
QLt(a, b) == ~QIsNaN(a) /\ ~QIsNaN(b) /\ a[1] * b[2] < b[1] * a[2]
QLe(a, b) == ~QIsNaN(a) /\ ~QIsNaN(b) /\ a[1] * b[2] <= b[1] * a[2]
QMin(a, b) == IF QIsNaN(a) \/ QIsNaN(b) THEN <<0, 0>> ELSE IF QLe(a, b) THEN a ELSE b
QMax(a, b) == IF QIsNaN(a) \/ QIsNaN(b) THEN <<0, 0>> ELSE IF QLe(a, b) THEN b ELSE a
\* Math.floor (\div rounds towards minus infinity)
QFloor(a) == a[1] \div a[2]
\* Math.round: the nearest integer, halves rounded up
MathRound(a) == QFloor(QAdd(a, <<1, 2>>))
\* parseFloat(a.toFixed(3)): a rounded to three decimals, halves away from zero
ToFixed3(a) ==
    LET m == QMul(QI(Abs(a[1])), <<1000, a[2]>>)
        r == QFloor(QAdd(m, <<1, 2>>))
    IN  IF a[1] < 0 THEN Q(-r, 1000) ELSE Q(r, 1000)

\* ------------------------------------------------------------------------
\* JavaScript values held by the animated objects
\* ------------------------------------------------------------------------
Undefined == [k |-> "undefined"]
Null == [k |-> "null"]
Num(q) == [k |-> "number", q |-> q]
N(i) == Num(QI(i))
\* a string; form is "hex3" (#RGB), "rgba" (rgba(r,g,b,a)) or "word"
Str(form, r, g, b, a) == [k |-> "string", form |-> form, r |-> r, g |-> g, b |-> b, a |-> a]
Vec2(x, y) == [k |-> "Vec2", x |-> x, y |-> y]
Arr(e) == [k |-> "array", e |-> e]
Obj(f) == [k |-> "object", f |-> f]

IsNumber(v) == v.k = "number"
IsString(v) == v.k = "string"
IsVec2(v) == v.k = "Vec2"
IsArray(v) == v.k = "array"
\* typeof v === 'object' && v !== null
IsObject(v) == v.k \in {"Vec2", "array", "object"}

IndexKey(i) == CASE i = 1 -> "0" [] i = 2 -> "1" [] i = 3 -> "2" [] OTHER -> "3"

\* the own enumerable keys of an object value
Keys(v) ==
    CASE v.k = "object" -> DOMAIN v.f
      [] v.k = "Vec2" -> {"x", "y"}
      [] v.k = "array" -> {IndexKey(i) : i \in DOMAIN v.e}
      [] OTHER -> {}

\* v[key]
Prop(v, key) ==
    CASE v.k = "object" -> IF key \in DOMAIN v.f THEN v.f[key] ELSE Undefined
      [] v.k = "Vec2" -> IF key = "x" THEN Num(v.x)
                         ELSE IF key = "y" THEN Num(v.y) ELSE Undefined
      [] v.k = "array" ->
            IF \E i \in DOMAIN v.e : IndexKey(i) = key
            THEN v.e[CHOOSE i \in DOMAIN v.e : IndexKey(i) = key]
            ELSE Undefined
      [] OTHER -> Undefined

\* v with v[key] = val assigned (val is a number when v is a Vec2)
WithProp(v, key, val) ==
    CASE v.k = "object" -> Obj([kk \in (DOMAIN v.f) \cup {key} |->
                                  IF kk = key THEN val ELSE v.f[kk]])
      [] v.k = "Vec2" /\ key = "x" /\ IsNumber(val) -> Vec2(val.q, v.y)
      [] v.k = "Vec2" /\ key = "y" /\ IsNumber(val) -> Vec2(v.x, val.q)
      [] v.k = "array" /\ (\E i \in DOMAIN v.e : IndexKey(i) = key) ->
            Arr([i \in DOMAIN v.e |-> IF IndexKey(i) = key THEN val ELSE v.e[i]])
      [] OTHER -> v

\* { ...v }: a plain object holding the own enumerable properties of v
Spread(v) == Obj([kk \in Keys(v) |-> Prop(v, kk)])

\* ------------------------------------------------------------------------
\* Colors
\* ------------------------------------------------------------------------
NoColor == [ok |-> FALSE]

\* parseColor: #RGB doubles each hex digit (d * 17), rgb()/rgba() is read as
\* written, anything else is no color
parseColor(v) ==
    IF ~IsString(v) THEN NoColor
    ELSE CASE v.form = "hex3" -> [ok |-> TRUE, r |-> v.r * 17, g |-> v.g * 17,
                                  b |-> v.b * 17, a |-> QI(1)]
           [] v.form = "rgba" -> [ok |-> TRUE, r |-> v.r, g |-> v.g, b |-> v.b, a |-> v.a]
           [] OTHER -> NoColor

interpolateColor(color1, color2, factor) ==
    LET c1 == parseColor(color1)
        c2 == parseColor(color2)
        mix(x, y) == MathRound(QAdd(QI(x), QMul(factor, QI(y - x))))
    IN  IF ~c1.ok \/ ~c2.ok THEN color1
        ELSE Str("rgba", mix(c1.r, c2.r), mix(c1.g, c2.g), mix(c1.b, c2.b),
                 ToFixed3(QAdd(c1.a, QMul(factor, QSub(c2.a, c1.a)))))

\* ------------------------------------------------------------------------
\* Easing functions (Easing.linear, Easing.easeInQuad, Easing.easeOutQuad and
\* a caller-supplied function t => 2 * t, which overshoots: its value at 1 is 2)
\* ------------------------------------------------------------------------
\* every easing replaced by easeInQuad
alwaysEaseInQuad(name, t) == QMul(t, t)

easingFn(name, t) ==
    CASE name = "linear" -> t
      [] name = "easeInQuad" -> QMul(t, t)
      [] name = "easeOutQuad" -> QMul(t, QSub(QI(2), t))
      [] OTHER -> QMul(QI(2), t)

\* ------------------------------------------------------------------------
\* Property paths
\* ------------------------------------------------------------------------
DummyPath == <<"_dummyPropertyForColorTween">>

RECURSIVE getDeepProperty(_, _)
getDeepProperty(obj, path) ==
    IF path = <<>> THEN obj
    ELSE IF obj.k \in {"undefined", "null"} THEN Undefined
    ELSE getDeepProperty(Prop(obj, Head(path)), Tail(path))

\* the object graph after _setDeepProperty(obj, path, value); a path that runs
\* through a missing field changes nothing (console.error and return)
RECURSIVE setDeepProperty(_, _, _)
setDeepProperty(obj, path, value) ==
    IF Len(path) = 1 THEN WithProp(obj, Head(path), value)
    ELSE LET next == Prop(obj, Head(path))
         IN  IF next.k \in {"undefined", "null"} THEN obj
             ELSE WithProp(obj, Head(path), setDeepProperty(next, Tail(path), value))

\* ------------------------------------------------------------------------
\* Program state.  An operation is an operator from a state record S to the
\* state record after the call:
\*   S.target        the animated object graph (one root object)
\*   S.tweens        the Tween objects, by identity
\*   S.tl            the Timeline
\*   S.activeTweens  Scene.activeTweens
\*   S.ev            the callbacks and writes of the running call, in order
\* ------------------------------------------------------------------------
TweenIds == {1, 2}

\* new Tween(target, propertyPath, endValue, duration, easingFn, sceneRef);
\* onComplete is 0 for a callback that touches no tween, or the tween the
\* callback calls start() on
NewTween(path, endValue, duration, easing, hasScene) ==
    [propertyPath |-> path, endValue |-> endValue, duration |-> duration,
     easingFn |-> easing, hasScene |-> hasScene,
     elapsedTime |-> QI(0), isActive |-> FALSE, startValue |-> Null,
     rawStartValue |-> Null, rawEndValue |-> Null, managedByTimeline |-> FALSE,
     completions |-> 0, endValueInTarget |-> FALSE, rawStartInTarget |-> FALSE,
     onComplete |-> 0]

\* Object identity.  The model holds values; endValueInTarget (rawStartInTarget)
\* records that the object held at the tween's property is the very object the
\* tween holds as endValue and rawEndValue (as rawStartValue).
\* Written: the tweens after an assignment below the target.  value is what
\* the property at path holds afterwards; inPlace tells that the object at path
\* stayed the same object and only its members keys were assigned (the merge
\* of the final write), otherwise the property was assigned value itself.
\* A tween that shares the object at its own property sees an assignment in it
\* or below it, and shares nothing once the property, or an object above it, is
\* assigned
Written(tws, path, value, inPlace, keys) ==
    [j \in DOMAIN tws |->
        LET tw == tws[j]
            own == tw.propertyPath
            below == Len(path) > Len(own) /\ SubSeq(path, 1, Len(own)) = own
            above == Len(path) < Len(own) /\ SubSeq(own, 1, Len(path)) = path
            seen(held) == IF own = path THEN value
                          ELSE setDeepProperty(held, SubSeq(path, Len(own) + 1, Len(path)),
                                               value)
        IN  IF (own = path /\ ~inPlace) \/ (above /\ (~inPlace \/ own[Len(path) + 1] \in keys))
            THEN [tw EXCEPT !.endValueInTarget = FALSE, !.rawStartInTarget = FALSE]
            ELSE IF below \/ (own = path /\ inPlace)
            THEN [tw EXCEPT !.endValue = IF tw.endValueInTarget THEN seen(@) ELSE @,
                            !.rawEndValue = IF tw.endValueInTarget /\ @ # Null
                                            THEN seen(@) ELSE @,
                            !.rawStartValue = IF tw.rawStartInTarget THEN seen(@) ELSE @]
            ELSE tw]

Event(e, i, v, p) == [e |-> e, i |-> i, v |-> v, p |-> p]
Emit(S, e, i, v, p) == [S EXCEPT !.ev = Append(@, Event(e, i, v, p))]

\* an exception was thrown during the running call and nothing caught it
Threw(S) == \E n \in DOMAIN S.ev : S.ev[n].e = "throw"

Includes(seq, x) == \E j \in DOMAIN seq : seq[j] = x
\* the sequence without its first occurrence of x (indexOf + splice)
RECURSIVE Splice(_, _)
Splice(seq, x) ==
    IF seq = <<>> THEN <<>>
    ELSE IF Head(seq) = x THEN Tail(seq)
    ELSE <<Head(seq)>> \o Splice(Tail(seq), x)

Scene_addTween(S, i) ==
    IF Includes(S.activeTweens, i) THEN S
    ELSE [S EXCEPT !.activeTweens = Append(@, i)]

\* a removeTween that leaves the list as it is
KeepTween(S, i) == S

Scene_removeTween(S, i) == [S EXCEPT !.activeTweens = Splice(@, i)]

\* ------------------------------------------------------------------------
\* Tween
\* ------------------------------------------------------------------------
\* start() throws a TypeError (v.clone is not a function)
Thrown == [k |-> "throw"]

\* the value start() captures as startValue, Undefined when start() fails, and
\* Thrown when cloning the elements of a list meets one that is no Vec2
CapturedStart(raw, end, path) ==
    IF raw = Undefined /\ path # DummyPath THEN Undefined
    ELSE IF IsString(raw) /\ IsString(end) /\ parseColor(raw).ok /\ parseColor(end).ok
         THEN raw
    ELSE IF IsVec2(raw) /\ IsVec2(end) THEN raw
    ELSE IF IsArray(raw) /\ IsArray(end) /\ Len(raw.e) = Len(end.e)
         THEN IF Len(raw.e) = 0 \/ (IsVec2(raw.e[1]) /\ IsVec2(end.e[1]))
              THEN IF \A j \in DOMAIN raw.e : IsVec2(raw.e[j]) THEN raw ELSE Thrown
              ELSE IF IsNumber(raw.e[1]) /\ IsNumber(end.e[1]) THEN raw
              ELSE Undefined
    ELSE IF IsNumber(raw) /\ IsNumber(end) THEN raw
    ELSE IF IsObject(raw) /\ IsObject(end) THEN Spread(raw)
    ELSE IF path = DummyPath THEN N(0)
    ELSE Undefined

\* a start() that keeps the start value of an earlier activation
StartFromFirstCapture(S, i) ==
    LET tw == S.tweens[i]
        raw == IF tw.rawStartValue # Null THEN tw.rawStartValue
               ELSE getDeepProperty(S.target, tw.propertyPath)
        base == [tw EXCEPT !.rawStartValue = raw, !.rawEndValue = tw.endValue,
                           !.completions = 0]
    IN  Then(CapturedStart(raw, tw.endValue, tw.propertyPath), LAMBDA sv :
            IF sv = Thrown
            THEN Emit([S EXCEPT !.tweens[i] = base], "throw", i, Undefined, QI(0))
            ELSE IF sv = Undefined
            THEN Emit([S EXCEPT !.tweens[i] = [base EXCEPT !.isActive = FALSE]],
                      "start", i, Undefined, QI(0))
            ELSE Then(Emit([S EXCEPT !.tweens[i] =
                              [base EXCEPT !.startValue = sv, !.elapsedTime = QI(0),
                                           !.isActive = TRUE]],
                           "start", i, Undefined, QI(0)),
                      LAMBDA S1 : IF tw.hasScene /\ ~tw.managedByTimeline
                                  THEN Scene_addTween(S1, i) ELSE S1))

Tween_start(S, i) ==
    LET tw == S.tweens[i]
        raw == getDeepProperty(S.target, tw.propertyPath)
        base == [tw EXCEPT !.rawStartValue = raw, !.rawEndValue = tw.endValue,
                           !.rawStartInTarget = IsObject(raw), !.completions = 0]
    IN  Then(CapturedStart(raw, tw.endValue, tw.propertyPath), LAMBDA sv :
            IF sv = Thrown
            THEN Emit([S EXCEPT !.tweens[i] = base], "throw", i, Undefined, QI(0))
            ELSE IF sv = Undefined
            THEN Emit([S EXCEPT !.tweens[i] = [base EXCEPT !.isActive = FALSE]],
                      "start", i, Undefined, QI(0))
            ELSE Then(Emit([S EXCEPT !.tweens[i] =
                              [base EXCEPT !.startValue = sv, !.elapsedTime = QI(0),
                                           !.isActive = TRUE]],
                           "start", i, Undefined, QI(0)),
                      LAMBDA S1 : IF tw.hasScene /\ ~tw.managedByTimeline
                                  THEN Scene_addTween(S1, i) ELSE S1))

\* the branch of Tween.update that computes currentValue
UpdateBranch(tw) ==
    LET sv == tw.startValue
        re == tw.rawEndValue
    IN  IF IsString(tw.rawStartValue) /\ IsString(re)
           /\ parseColor(tw.rawStartValue).ok /\ parseColor(re).ok THEN "color"
        ELSE IF IsVec2(sv) /\ IsVec2(re) THEN "Vec2"
        ELSE IF IsArray(sv) /\ IsArray(re) /\ Len(sv.e) = Len(re.e) THEN "array"
        ELSE IF IsNumber(sv) /\ IsNumber(re) THEN "number"
        ELSE IF IsObject(sv) /\ IsObject(re) THEN "object"
        ELSE IF tw.propertyPath = DummyPath THEN "dummy"
        ELSE "unsupported"

\* currentValue of Tween.update at the given progress
CurrentValue(tw, progress) ==
    LET sv == tw.startValue
        re == tw.rawEndValue
    IN  Then(easingFn(tw.easingFn, progress), LAMBDA eased :
        LET lerp(a, b) == QAdd(a, QMul(QSub(b, a), eased))
            member(key) ==
                LET a == Prop(sv, key)
                    b == Prop(re, key)
                IN  IF key \notin Keys(re) THEN a
                    ELSE IF IsNumber(a) /\ IsNumber(b) THEN Num(lerp(a.q, b.q))
                    ELSE IF IsString(a) /\ IsString(b) /\ parseColor(a).ok /\ parseColor(b).ok
                         THEN interpolateColor(a, b, eased)
                    ELSE IF QLe(QI(1), progress) THEN b
                    ELSE a
        IN  Then(UpdateBranch(tw), LAMBDA branch :
            CASE branch = "color" -> interpolateColor(tw.rawStartValue, re, eased)
              [] branch = "Vec2" -> Vec2(lerp(sv.x, re.x), lerp(sv.y, re.y))
              [] branch = "array" ->
                    IF Len(sv.e) = 0 THEN Arr(<<>>)
                    ELSE IF IsVec2(sv.e[1])
                         THEN Arr([j \in DOMAIN sv.e |->
                                     Vec2(lerp(sv.e[j].x, re.e[j].x),
                                          lerp(sv.e[j].y, re.e[j].y))])
                    ELSE IF IsNumber(sv.e[1])
                         THEN Arr([j \in DOMAIN sv.e |-> Num(lerp(sv.e[j].q, re.e[j].q))])
                    ELSE re
              [] branch = "number" -> Num(lerp(sv.q, re.q))
              [] branch = "object" -> Obj([key \in Keys(sv) |-> member(key)])
              [] OTHER -> Undefined))

\* a completion that leaves the last interpolated value in place
NoFinalWrite(target, tw) == target

\* the target after the final write of a completing tween
FinalWrite(target, tw) ==
    LET re == tw.rawEndValue
        cur == getDeepProperty(target, tw.propertyPath)
    IN  IF tw.propertyPath = DummyPath THEN target
        ELSE IF re.k = "object" /\ IsObject(cur)
             THEN setDeepProperty(target, tw.propertyPath,
                    IF cur.k = "object"
                    THEN Obj([key \in Keys(cur) |->
                                IF key \in Keys(re) THEN Prop(re, key) ELSE Prop(cur, key)])
                    ELSE cur)
        ELSE setDeepProperty(target, tw.propertyPath, re)

\* a completion that does not call the completion callback
CompleteSilently(S, i, progress) ==
    Then(Emit([S EXCEPT !.tweens[i].isActive = FALSE,
                        !.target = FinalWrite(@, S.tweens[i])],
              "final", i, S.tweens[i].rawEndValue, progress),
         LAMBDA S4 : IF S.tweens[i].hasScene /\ ~S.tweens[i].managedByTimeline
                     THEN Scene_removeTween(S4, i) ELSE S4)

\* a completion that calls the completion callback before the final write
CompleteCallbackFirst(S, i, progress) ==
    Then(Emit(Emit([S EXCEPT !.tweens[i].isActive = FALSE,
                             !.tweens[i].completions = @ + 1,
                             !.target = FinalWrite(@, S.tweens[i])],
                   "onComplete", i, Undefined, progress),
              "final", i, S.tweens[i].rawEndValue, progress),
         LAMBDA S4 : IF S.tweens[i].hasScene /\ ~S.tweens[i].managedByTimeline
                     THEN Scene_removeTween(S4, i) ELSE S4)

\* the tweens after the final write of tween i: a generic object is merged
\* into the object the property holds, anything else is assigned as it is, so
\* that the property then holds the very endValue object
FinalShared(S, i) ==
    LET tw == S.tweens[i]
        re == tw.rawEndValue
        cur == getDeepProperty(S.target, tw.propertyPath)
        after == getDeepProperty(FinalWrite(S.target, tw), tw.propertyPath)
    IN  IF tw.propertyPath = DummyPath THEN S.tweens
        ELSE IF re.k = "object" /\ IsObject(cur)
        THEN Written(S.tweens, tw.propertyPath, after, TRUE, Keys(re) \cap Keys(cur))
        ELSE IF after = re
        THEN [Written(S.tweens, tw.propertyPath, re, FALSE, {})
                 EXCEPT ![i].endValueInTarget = IsObject(re)]
        ELSE S.tweens

\* the part of Tween.update that runs once progress has reached 1
Complete(S, i, progress) ==
    Then(Emit(Emit([S EXCEPT !.tweens = [FinalShared(S, i) EXCEPT
                                            ![i].isActive = FALSE,
                                            ![i].completions = @ + 1],
                             !.target = FinalWrite(@, S.tweens[i])],
                   "final", i, S.tweens[i].rawEndValue, progress),
              "onComplete", i, Undefined, progress),
         LAMBDA S3 :
             Then(IF S.tweens[i].onComplete = 0 THEN S3
                  ELSE Tween_start(S3, S.tweens[i].onComplete),
                  LAMBDA S4 : IF Threw(S4) THEN S4
                              ELSE IF S.tweens[i].hasScene /\ ~S.tweens[i].managedByTimeline
                              THEN Scene_removeTween(S4, i) ELSE S4))

Tween_update(S, i, deltaTime) ==
    LET tw == S.tweens[i]
        tw1 == [tw EXCEPT !.elapsedTime = IF tw.managedByTimeline THEN @
                                          ELSE QAdd(@, deltaTime)]
    IN  IF ~tw.isActive THEN S
        ELSE IF UpdateBranch(tw1) = "unsupported"
             THEN [S EXCEPT !.tweens[i] = [tw1 EXCEPT !.isActive = FALSE]]
        ELSE Then(QMin(QDiv(tw1.elapsedTime, QI(tw.duration)), QI(1)), LAMBDA progress :
             Then(CurrentValue(tw1, progress), LAMBDA value :
             Then(Emit(Emit([S EXCEPT !.tweens =
                                          IF tw.propertyPath = DummyPath
                                          THEN [@ EXCEPT ![i] = tw1]
                                          ELSE Written([@ EXCEPT ![i] = tw1],
                                                       tw.propertyPath, value, FALSE, {}),
                                      !.target = IF tw.propertyPath = DummyPath THEN @
                                                 ELSE setDeepProperty(@, tw.propertyPath, value)],
                            "write", i, value, progress),
                       "onUpdate", i, value, progress),
                  LAMBDA S2 : IF QLe(QI(1), progress) THEN Complete(S2, i, progress)
                              ELSE S2)))

\* a setProgress that reactivates an inactive tween at every progress
SetProgressReactivating(S, i, progressRatio) ==
    LET inside == QLt(QI(0), progressRatio) /\ QLt(progressRatio, QI(1))
        clamped == QMin(QMax(QI(0), progressRatio), QI(1))
    IN  Then(IF ~S.tweens[i].isActive /\ inside /\ S.tweens[i].startValue = Null
             THEN Tween_start(S, i) ELSE S, LAMBDA S1 :
             IF Threw(S1) THEN S1
             ELSE Tween_update(
                      [S1 EXCEPT !.tweens[i].isActive = TRUE,
                                 !.tweens[i].elapsedTime =
                                     QMul(clamped, QI(S.tweens[i].duration))],
                      i, QI(0)))

Tween_setProgress(S, i, progressRatio) ==
    LET inside == QLt(QI(0), progressRatio) /\ QLt(progressRatio, QI(1))
        clamped == QMin(QMax(QI(0), progressRatio), QI(1))
    IN  Then(IF ~S.tweens[i].isActive /\ inside /\ S.tweens[i].startValue = Null
             THEN Tween_start(S, i) ELSE S, LAMBDA S1 :
             IF Threw(S1) THEN S1
             ELSE Tween_update(
                      [S1 EXCEPT !.tweens[i].isActive = IF ~@ /\ inside THEN TRUE ELSE @,
                                 !.tweens[i].elapsedTime =
                                     QMul(clamped, QI(S.tweens[i].duration))],
                      i, QI(0)))

\* the value resetToStart() writes back for a captured raw start value
ResetValue(raw) ==
    IF IsVec2(raw) THEN raw
    ELSE IF IsArray(raw) /\ Len(raw.e) > 0 /\ IsVec2(raw.e[1]) THEN raw
    ELSE IF IsArray(raw) /\ Len(raw.e) > 0 /\ IsNumber(raw.e[1]) THEN raw
    ELSE IF IsObject(raw) THEN Spread(raw)
    ELSE raw

Tween_resetToStart(S, i) ==
    LET tw == S.tweens[i]
        S1 == [S EXCEPT !.tweens[i].elapsedTime = QI(0), !.tweens[i].isActive = FALSE]
    IN  IF tw.startValue # Null /\ tw.rawStartValue # Null /\ tw.propertyPath # DummyPath
        THEN Emit([S1 EXCEPT !.tweens = Written(@, tw.propertyPath,
                                                 ResetValue(tw.rawStartValue), FALSE, {}),
                             !.target = setDeepProperty(@, tw.propertyPath,
                                                         ResetValue(tw.rawStartValue))],
                  "reset", i, ResetValue(tw.rawStartValue), QI(0))
        ELSE S1

\* ------------------------------------------------------------------------
\* Timeline
\* ------------------------------------------------------------------------
\* new Timeline(); isNaN says that currentTime holds NaN (x % 0)
NewTimeline ==
    [tweensWithMeta |-> <<>>, currentTime |-> 0, isNaN |-> FALSE, isPlaying |-> FALSE,
     timeScale |-> 1, duration |-> 0, loop |-> FALSE]

Max(a, b) == IF a >= b THEN a ELSE b
Min(a, b) == IF a <= b THEN a ELSE b

\* currentTime >= x and currentTime < x; every comparison with NaN is false
TimeGe(tl, x) == ~tl.isNaN /\ tl.currentTime >= x
TimeLt(tl, x) == ~tl.isNaN /\ tl.currentTime < x

RECURSIVE MaxEnd(_, _, _)
MaxEnd(items, tweens, acc) ==
    IF items = <<>> THEN acc
    ELSE MaxEnd(Tail(items), tweens,
                Max(acc, Head(items).startTime + tweens[Head(items).tween].duration))

Timeline_recalculateDuration(S) ==
    [S EXCEPT !.tl.duration = MaxEnd(S.tl.tweensWithMeta, S.tweens, 0)]

\* a value passed to add() that is no Tween
NotATween == 0

\* an add() that takes whatever it is given
AddUnchecked(S, tween, startTime) ==
    [S EXCEPT !.tl.tweensWithMeta =
                  Append(@, [tween |-> tween, startTime |-> startTime,
                             hasStartedInternal |-> FALSE])]

\* an add() that does not take the tween over from the Scene
AddWithoutOwning(S, tween, startTime) ==
    IF tween \notin TweenIds THEN S
    ELSE Timeline_recalculateDuration(
            [S EXCEPT !.tl.tweensWithMeta =
                          Append(@, [tween |-> tween, startTime |-> startTime,
                                     hasStartedInternal |-> FALSE])])

\* add(tween, startTime); a value that is no Tween is refused
Timeline_add(S, tween, startTime) ==
    IF tween \notin TweenIds THEN S
    ELSE Timeline_recalculateDuration(
            [S EXCEPT !.tweens[tween].managedByTimeline = TRUE,
                      !.tl.tweensWithMeta =
                          Append(@, [tween |-> tween, startTime |-> startTime,
                                     hasStartedInternal |-> FALSE])])

\* an option of the options object: given or left out
Given(v) == [given |-> TRUE, v |-> v]
Omitted == [given |-> FALSE, v |-> 0]
\* options.x || dflt: dflt when x is left out and also when x is 0
OrDefault(opt, dflt) == IF opt.given /\ opt.v # 0 THEN opt.v ELSE dflt

RECURSIVE SequenceFrom(_, _, _, _)
SequenceFrom(S, tweens, currentTimeMarker, gap) ==
    IF tweens = <<>> THEN S
    ELSE SequenceFrom(Timeline_add(S, Head(tweens), currentTimeMarker), Tail(tweens),
                      currentTimeMarker + S.tweens[Head(tweens)].duration + gap, gap)

Timeline_sequence(S, tweens, offset, gap) ==
    SequenceFrom(S, tweens, OrDefault(offset, S.tl.duration), OrDefault(gap, 0))

RECURSIVE ParallelFrom(_, _, _)
ParallelFrom(S, tweens, parallelOffset) ==
    IF tweens = <<>> THEN S
    ELSE ParallelFrom(Timeline_add(S, Head(tweens), parallelOffset), Tail(tweens),
                      parallelOffset)

Timeline_parallel(S, tweens, offset) ==
    ParallelFrom(S, tweens, OrDefault(offset, S.tl.duration))

RECURSIVE ResetFrom(_, _)
ResetFrom(S, j) ==
    IF j > Len(S.tl.tweensWithMeta) THEN S
    ELSE ResetFrom([Tween_resetToStart(S, S.tl.tweensWithMeta[j].tween) EXCEPT
                       !.tl.tweensWithMeta[j].hasStartedInternal = FALSE], j + 1)

Timeline_resetAllTweensState(S) == ResetFrom(S, 1)

Timeline_play(S) ==
    IF S.tl.isPlaying THEN S
    ELSE LET S1 == [S EXCEPT !.tl.isPlaying = TRUE]
         IN  IF TimeGe(S.tl, S.tl.duration) /\ ~S.tl.loop
             THEN Timeline_resetAllTweensState(
                      [S1 EXCEPT !.tl.currentTime = 0, !.tl.isNaN = FALSE])
             ELSE S1

Timeline_playFromStart(S) ==
    [Timeline_resetAllTweensState([S EXCEPT !.tl.currentTime = 0, !.tl.isNaN = FALSE])
        EXCEPT !.tl.isPlaying = TRUE]

\* a pause() that leaves the timeline playing
PauseKeepsPlaying(S) == S

Timeline_pause(S) == [S EXCEPT !.tl.isPlaying = FALSE]

Timeline_setLoop(S, loop) == [S EXCEPT !.tl.loop = loop]

Timeline_setTimeScale(S, scale) == [S EXCEPT !.tl.timeScale = scale]

Timeline_dispose(S) == [S EXCEPT !.tl.tweensWithMeta = <<>>]

\* a local progress measured from the start of the timeline, not of the window
ProgressFromZero(S, item) ==
    Q(S.tl.currentTime, S.tweens[item.tween].duration)

\* local progress (currentTime - startTime) / duration of an entry
LocalProgress(S, item) ==
    Q(S.tl.currentTime - item.startTime, S.tweens[item.tween].duration)

\* the body of the loop of seek for entry j; an exception thrown by start()
\* leaves the loop
SeekItem(S, j) ==
    LET item == S.tl.tweensWithMeta[j]
        tween == item.tween
        tweenEndTime == item.startTime + S.tweens[tween].duration
        started(X) == [X EXCEPT !.tl.tweensWithMeta[j].hasStartedInternal = TRUE]
    IN  IF TimeGe(S.tl, item.startTime) /\ TimeLt(S.tl, tweenEndTime)
        THEN Then(IF ~item.hasStartedInternal THEN Tween_start(S, tween) ELSE S,
                  LAMBDA S1 :
                      IF Threw(S1) THEN S1
                      ELSE Tween_setProgress(
                               IF ~item.hasStartedInternal THEN started(S1) ELSE S1,
                               tween, LocalProgress(S, item)))
        ELSE IF TimeGe(S.tl, tweenEndTime)
             THEN IF item.hasStartedInternal /\ S.tweens[tween].isActive
                  THEN Tween_setProgress(S, tween, QI(1))
                  ELSE IF ~item.hasStartedInternal
                       THEN Then(Tween_start(S, tween), LAMBDA S1 :
                                IF Threw(S1) THEN S1
                                ELSE Tween_setProgress(started(S1), tween, QI(1)))
                       ELSE S
        ELSE IF item.hasStartedInternal
             THEN [Tween_resetToStart(S, tween) EXCEPT
                      !.tl.tweensWithMeta[j].hasStartedInternal = FALSE]
             ELSE S

RECURSIVE SeekFrom(_, _)
SeekFrom(S, j) ==
    IF j > Len(S.tl.tweensWithMeta) \/ Threw(S) THEN S
    ELSE SeekFrom(SeekItem(S, j), j + 1)

Timeline_seek(S, time) ==
    SeekFrom([S EXCEPT !.tl.currentTime = Max(0, Min(time, S.tl.duration)),
                       !.tl.isNaN = FALSE], 1)

\* an update that evaluates an entry the way seek does, catch-up included
UpdateLikeSeek(S, j) == SeekItem(S, j)

\* the body of the first loop of update for entry j; an exception thrown by
\* start() leaves the loop
UpdateItem(S, j) ==
    LET item == S.tl.tweensWithMeta[j]
        tween == item.tween
        tweenEndTime == item.startTime + S.tweens[tween].duration
    IN  IF TimeGe(S.tl, item.startTime) /\ TimeLt(S.tl, tweenEndTime)
        THEN Then(IF ~item.hasStartedInternal THEN Tween_start(S, tween) ELSE S,
                  LAMBDA S1 :
                      IF Threw(S1) THEN S1
                      ELSE Tween_setProgress(
                               IF ~item.hasStartedInternal
                               THEN [S1 EXCEPT
                                        !.tweens[tween].isActive = TRUE,
                                        !.tl.tweensWithMeta[j].hasStartedInternal = TRUE]
                               ELSE S1,
                               tween, LocalProgress(S, item)))
        ELSE IF TimeGe(S.tl, tweenEndTime)
             THEN IF item.hasStartedInternal /\ S.tweens[tween].isActive
                  THEN Tween_setProgress(S, tween, QI(1))
                  ELSE S
        ELSE IF TimeLt(S.tl, item.startTime) /\ item.hasStartedInternal
             THEN [Tween_resetToStart(S, tween) EXCEPT
                      !.tl.tweensWithMeta[j].hasStartedInternal = FALSE]
             ELSE S

\* an update loop that evaluates the entries from the last to the first
RECURSIVE UpdateFromLast(_, _)
UpdateFromLast(S, j) ==
    IF j > Len(S.tl.tweensWithMeta) \/ Threw(S) THEN S
    ELSE UpdateItem(UpdateFromLast(S, j + 1), j)

RECURSIVE UpdateFrom(_, _)
UpdateFrom(S, j) ==
    IF j > Len(S.tl.tweensWithMeta) \/ Threw(S) THEN S
    ELSE UpdateFrom(UpdateItem(S, j), j + 1)

\* the loop of the non-looping end of update: finish what is still active
RECURSIVE FinishFrom(_, _)
FinishFrom(S, j) ==
    IF j > Len(S.tl.tweensWithMeta) THEN S
    ELSE LET item == S.tl.tweensWithMeta[j]
         IN  FinishFrom(IF item.hasStartedInternal /\ S.tweens[item.tween].isActive
                        THEN Tween_setProgress(S, item.tween, QI(1)) ELSE S, j + 1)

\* a wrap that restarts every cycle at 0 instead of at the remainder
WrapToZero(S) == [S EXCEPT !.tl.currentTime = 0]

\* currentTime % duration; the remainder by 0 is NaN
Wrap(S) ==
    IF S.tl.duration = 0 THEN [S EXCEPT !.tl.isNaN = TRUE]
    ELSE [S EXCEPT !.tl.currentTime = @ % S.tl.duration]

\* an end of playback that forgets to stop playing
EndWithoutStopping(S) ==
    Emit(FinishFrom(S, 1), "timelineComplete", 0, Undefined, QI(0))

\* the end of a non-looping playback: stop, finish the active tweens, then call
\* the timeline's completion callback (registered with then())
EndOfPlayback(S) ==
    Emit(FinishFrom([S EXCEPT !.tl.isPlaying = FALSE], 1),
         "timelineComplete", 0, Undefined, QI(0))

RECURSIVE Timeline_update(_, _)
Timeline_update(S, deltaTime) ==
    IF ~S.tl.isPlaying THEN S
    ELSE Then(UpdateFrom([S EXCEPT !.tl.currentTime = @ + deltaTime * S.tl.timeScale], 1),
              LAMBDA S1 :
                  IF Threw(S1) THEN S1
                  ELSE IF TimeGe(S1.tl, S1.tl.duration)
                  THEN IF S1.tl.loop
                       THEN Timeline_update(Timeline_resetAllTweensState(Wrap(S1)), 0)
                       ELSE EndOfPlayback(S1)
                  ELSE S1)

\* ------------------------------------------------------------------------
\* Scene: the registry that drives standalone tweens
\* ------------------------------------------------------------------------
\* the loop of Scene.update over activeTweens, from index i down to 1
RECURSIVE SceneLoop(_, _, _)
SceneLoop(S, i, deltaTime) ==
    IF i < 1 THEN S
    ELSE IF i > Len(S.activeTweens) THEN SceneLoop(S, i - 1, deltaTime)
    ELSE LET tween == S.activeTweens[i]
         IN  SceneLoop(IF S.tweens[tween].isActive
                       THEN Tween_update(S, tween, deltaTime)
                       ELSE Scene_removeTween(S, tween), i - 1, deltaTime)

Scene_update(S, deltaTime) == SceneLoop(S, Len(S.activeTweens), deltaTime)

\* ------------------------------------------------------------------------
\* State machine
\* ------------------------------------------------------------------------
VARIABLES
    target,         \* the animated object graph
    tweens,         \* the Tween objects
    tl,             \* the Timeline
    activeTweens,   \* Scene.activeTweens
    ev,             \* what the last call wrote and which callbacks it invoked
    call            \* the last call: its name and argument, the number of calls
                    \* made so far, and whether it started from an untouched state

vars == <<target, tweens, tl, activeTweens, ev, call>>

\* the program state as one record
Cur == [target |-> target, tweens |-> tweens, tl |-> tl,
        activeTweens |-> activeTweens, ev |-> ev]

\* the state a call starts from: ev is cleared
Call == [Cur EXCEPT !.ev = <<>>]

\* nothing has been evaluated yet: the play-head is at 0 and no tween was started
Untouched(S) ==
    /\ S.tl.currentTime = 0 /\ ~S.tl.isNaN
    /\ \A i \in TweenIds : ~S.tweens[i].isActive /\ S.tweens[i].rawStartValue = Null
    /\ \A j \in DOMAIN S.tl.tweensWithMeta : ~S.tl.tweensWithMeta[j].hasStartedInternal

\* the variables take the state R after the call named name with argument arg
Becomes(R, name, arg) ==
    /\ call.n < MaxSteps
    /\ target' = R.target
    /\ tweens' = R.tweens
    /\ tl' = R.tl
    /\ activeTweens' = R.activeTweens
    /\ ev' = R.ev
    /\ call' = [n |-> call.n + 1, name |-> name, arg |-> arg, fresh |-> Untouched(Cur)]

\* --- the objects a script constructs -----------------------------------
\* the animated object: two numeric fields
Target0 == Obj([x |-> N(0), y |-> N(1)])

TimeScales == {1, 2}

\* tween 1 animates x to 4 over 2 ticks; tween 2 animates x or y to 8 over 1 or 2
TweenPool ==
    {[i \in TweenIds |->
        IF i = 1 THEN NewTween(<<"x">>, N(4), 2, "linear", FALSE)
        ELSE NewTween(p, N(8), d, "easeInQuad", FALSE)] :
     p \in {<<"x">>, <<"y">>}, d \in {1, 2}}

Fresh(pool) ==
    [target |-> Target0, tweens |-> pool, tl |-> NewTimeline,
     activeTweens |-> <<>>, ev |-> <<>>]

Becomes0(R) ==
    /\ target = R.target
    /\ tweens = R.tweens
    /\ tl = R.tl
    /\ activeTweens = R.activeTweens
    /\ ev = <<>>
    /\ call = [n |-> 0, name |-> "new", arg |-> 0, fresh |-> TRUE]

\* a script has built a timeline of two entries with add(tween, startTime)
Init ==
    \E pool \in TweenPool, first \in TweenIds, s1, s2 \in 0..(MaxTime - 1) :
        Becomes0(Timeline_add(Timeline_add(Fresh(pool), first, s1),
                              CHOOSE j \in TweenIds : j # first, s2))

Seek == \E t \in 0..(MaxTime + 1) : Becomes(Timeline_seek(Call, t), "seek", t)

Update == \E dt \in 0..MaxDt : Becomes(Timeline_update(Call, dt), "update", dt)

Play == ~tl.isPlaying /\ Becomes(Timeline_play(Call), "play", 0)

PlayFromStart == Becomes(Timeline_playFromStart(Call), "playFromStart", 0)

Pause == tl.isPlaying /\ Becomes(Timeline_pause(Call), "pause", 0)

SetLoop == Becomes(Timeline_setLoop(Call, ~tl.loop), "setLoop", IF tl.loop THEN 0 ELSE 1)

SetTimeScale ==
    \E k \in TimeScales \ {tl.timeScale} :
        Becomes(Timeline_setTimeScale(Call, k), "setTimeScale", k)

Next == Seek \/ Update \/ Play \/ PlayFromStart \/ Pause \/ SetLoop \/ SetTimeScale

Spec == Init /\ [][Next]_vars

\* ------------------------------------------------------------------------
\* Composition: a script builds the timeline call by call
\* ------------------------------------------------------------------------
\* tween 1 (2 ticks) and tween 2 (1 tick) both animate x
BuildPool ==
    [i \in TweenIds |->
        IF i = 1 THEN NewTween(<<"x">>, N(4), 2, "linear", FALSE)
        ELSE NewTween(<<"x">>, N(8), 1, "linear", FALSE)]

Offsets == {Omitted} \cup {Given(o) : o \in 0..(MaxTime - 1)}
Gaps == {Omitted, Given(1)}
TweenLists == {<<1, 2>>, <<2>>}

BuildInit == Becomes0(Fresh(BuildPool))

Add ==
    \E i \in TweenIds \cup {NotATween}, s \in 0..1 :
        Becomes(Timeline_add(Call, i, s), "add", [tween |-> i, startTime |-> s])

Sequence ==
    \E tws \in TweenLists, offset \in Offsets, gap \in Gaps :
        Becomes(Timeline_sequence(Call, tws, offset, gap), "sequence",
                [tweens |-> tws, offset |-> offset, gap |-> gap,
                 before |-> Len(tl.tweensWithMeta)])

Parallel ==
    \E offset \in Offsets :
        Becomes(Timeline_parallel(Call, <<1, 2>>, offset), "parallel",
                [tweens |-> <<1, 2>>, offset |-> offset,
                 before |-> Len(tl.tweensWithMeta)])

Dispose == Becomes(Timeline_dispose(Call), "dispose", 0)

BuildNext == Add \/ Sequence \/ Parallel \/ Dispose \/ Seek \/ Update \/ Play \/ SetLoop

SpecBuild == BuildInit /\ [][BuildNext]_vars

\* ------------------------------------------------------------------------
\* Standalone tweens: a script drives the tweens itself or through the Scene
\* ------------------------------------------------------------------------
\* the animated object: a number, a Vec2, a list of numbers and a color
TweenTarget0 ==
    Obj([x |-> N(0), p |-> Vec2(QI(0), QI(1)), l |-> Arr(<<N(0), N(2)>>),
         c |-> Str("hex3", 15, 0, 0, QI(1))])

Kinds == {"x", "p", "l", "c"}

\* the endValue a script passes for the property of each kind
EndOf(kind) ==
    CASE kind = "x" -> N(4)
      [] kind = "p" -> Vec2(QI(2), QI(3))
      [] kind = "l" -> Arr(<<N(1), N(4)>>)
      [] OTHER -> Str("hex3", 0, 0, 15, QI(1))

\* tween 1 is registered with the Scene and animates a property of any kind to
\* its end value over 2 ticks; tween 2 animates x over 1 tick with the
\* overshooting easing, towards a number or (a type mismatch) towards a Vec2
StandalonePool ==
    {[i \in TweenIds |->
        IF i = 1 THEN NewTween(<<kind>>, EndOf(kind), 2, easing, TRUE)
        ELSE NewTween(<<"x">>, end, 1, "custom", FALSE)] :
     kind \in Kinds, easing \in {"linear", "easeOutQuad", "custom"},
     end \in {N(8), Vec2(QI(1), QI(1))}}

\* the tweens are constructed; tween 2 may have been added to a timeline
TweenInit ==
    \E pool \in StandalonePool, managed \in BOOLEAN :
        Becomes0(IF managed
                 THEN Timeline_add([Fresh(pool) EXCEPT !.target = TweenTarget0], 2, 0)
                 ELSE [Fresh(pool) EXCEPT !.target = TweenTarget0])

TweenStart == \E i \in TweenIds : Becomes(Tween_start(Call, i), "start", [i |-> i, p |-> QI(0)])

\* setProgress(k / 2)
TweenSetProgress ==
    \E i \in TweenIds, k \in 0..MaxDt :
        Becomes(Tween_setProgress(Call, i, Q(k, 2)), "setProgress", [i |-> i, p |-> Q(k, 2)])

TweenUpdate ==
    \E i \in TweenIds, dt \in 0..MaxDt :
        Becomes(Tween_update(Call, i, QI(dt)), "tweenUpdate", [i |-> i, p |-> QI(dt)])

TweenResetToStart ==
    \E i \in TweenIds :
        Becomes(Tween_resetToStart(Call, i), "resetToStart", [i |-> i, p |-> QI(0)])

SceneUpdate ==
    \E dt \in 0..MaxDt :
        Becomes(Scene_update(Call, QI(dt)), "sceneUpdate", [i |-> 0, p |-> QI(dt)])

TweenNext == TweenStart \/ TweenSetProgress \/ TweenUpdate \/ TweenResetToStart \/ SceneUpdate

SpecTween == TweenInit /\ [][TweenNext]_vars

\* ------------------------------------------------------------------------
\* A timeline one of whose tweens cannot start
\* ------------------------------------------------------------------------
\* the animated object: two numbers and a list that mixes a Vec2 and a number
FailTarget0 ==
    Obj([x |-> N(0), y |-> N(1), m |-> Arr(<<Vec2(QI(0), QI(0)), N(5)>>)])

\* tween 1 animates x; tween 2 is bound to a property that does not exist, to
\* a number that it shall turn into a Vec2, or to the mixed list
FailPool ==
    {[i \in TweenIds |->
        IF i = 1 THEN NewTween(<<"x">>, N(4), 2, "linear", FALSE)
        ELSE NewTween(bad.path, bad.endValue, 1, "linear", FALSE)] :
     bad \in {[path |-> <<"z">>, endValue |-> N(8)],
              [path |-> <<"y">>, endValue |-> Vec2(QI(1), QI(1))],
              [path |-> <<"m">>,
               endValue |-> Arr(<<Vec2(QI(1), QI(1)), Vec2(QI(2), QI(2))>>)]}}

FailInit ==
    \E pool \in FailPool, first \in TweenIds, s1, s2 \in 0..(MaxTime - 1) :
        Becomes0(Timeline_add(
                     Timeline_add([Fresh(pool) EXCEPT !.target = FailTarget0], first, s1),
                     CHOOSE j \in TweenIds : j # first, s2))

FailNext == Seek \/ Update \/ Play \/ SetLoop

SpecFail == FailInit /\ [][FailNext]_vars

\* ------------------------------------------------------------------------
\* Standalone tweens whose end value does not fit the property
\* ------------------------------------------------------------------------
\* tween 1 animates the Vec2 p; tween 2 is bound to the missing property z, or
\* shall turn the number x into a Vec2, the Vec2 p into a list of numbers, or
\* the list l of two numbers into a list of three
MismatchPool ==
    {[i \in TweenIds |->
        IF i = 1 THEN NewTween(<<"p">>, EndOf("p"), 2, "linear", TRUE)
        ELSE NewTween(other.path, other.endValue, 2, "linear", FALSE)] :
     other \in {[path |-> <<"z">>, endValue |-> N(8)],
                [path |-> <<"x">>, endValue |-> Vec2(QI(1), QI(1))],
                [path |-> <<"p">>, endValue |-> Arr(<<N(1), N(4)>>)],
                [path |-> <<"l">>, endValue |-> Arr(<<N(1), N(4), N(6)>>)]}}

MismatchInit ==
    \E pool \in MismatchPool :
        Becomes0([Fresh(pool) EXCEPT !.target = TweenTarget0])

SpecMismatch == MismatchInit /\ [][TweenNext]_vars

\* ------------------------------------------------------------------------
\* A timeline one of whose tweens has a duration that is not positive
\* ------------------------------------------------------------------------
\* tween 1 animates x over 2 ticks; tween 2 shall animate y over 0 or -1 ticks
InvalidPool ==
    {[i \in TweenIds |->
        IF i = 1 THEN NewTween(<<"x">>, N(4), 2, "linear", FALSE)
        ELSE NewTween(<<"y">>, N(8), d, "linear", FALSE)] :
     d \in {0, -1}}

InvalidInit ==
    \E pool \in InvalidPool, first \in TweenIds, s1, s2 \in 0..(MaxTime - 1) :
        Becomes0(Timeline_add(Timeline_add(Fresh(pool), first, s1),
                              CHOOSE j \in TweenIds : j # first, s2))

SpecInvalid == InvalidInit /\ [][FailNext]_vars

\* ------------------------------------------------------------------------
\* Standalone tweens on a keyed record
\* ------------------------------------------------------------------------
\* the animated object: a record with a number and a color
RecordTarget0 ==
    Obj([r |-> Obj([a |-> N(0), c |-> Str("hex3", 15, 0, 0, QI(1))])])

\* tween 1 animates the number and the color of r, or the number and a key b
\* that r does not have; tween 2 animates the number of r
RecordPool ==
    {[i \in TweenIds |->
        IF i = 1 THEN NewTween(<<"r">>, end, 2, "linear", TRUE)
        ELSE NewTween(<<"r">>, Obj([a |-> N(2)]), 1, "custom", FALSE)] :
     end \in {Obj([a |-> N(4), c |-> Str("hex3", 0, 0, 15, QI(1))]),
              Obj([a |-> N(4), b |-> N(7)])}}

RecordInit ==
    \E pool \in RecordPool :
        Becomes0([Fresh(pool) EXCEPT !.target = RecordTarget0])

SpecRecord == RecordInit /\ [][TweenNext]_vars

\* ------------------------------------------------------------------------
\* Standalone tweens that a script hands over to a timeline
\* ------------------------------------------------------------------------
\* the script may add a tween to the timeline at any time, also after start()
\* has registered it with the Scene
OwnedNext == TweenNext \/ Add

\* the tweens are constructed: tween 1, registered with the Scene, animates the
\* number x with linear easing; the timeline is empty
OwnedInit ==
    \E pool \in {p \in StandalonePool :
                    p[1].propertyPath = <<"x">> /\ p[1].easingFn = "linear"} :
        Becomes0([Fresh(pool) EXCEPT !.target = TweenTarget0])

SpecOwned == OwnedInit /\ [][OwnedNext]_vars

\* ------------------------------------------------------------------------
\* The animation loop: the Scene ticks the standalone tweens a script started
\* ------------------------------------------------------------------------
\* both tweens are registered with the Scene: tween 1 animates the Vec2, the
\* list or the color over 2 ticks, tween 2 animates the number x over 1 tick
TickPool ==
    {[i \in TweenIds |->
        IF i = 1 THEN NewTween(<<kind>>, EndOf(kind), 2, easing, TRUE)
        ELSE NewTween(<<"x">>, N(8), 1, "custom", TRUE)] :
     kind \in Kinds \ {"x"}, easing \in {"linear", "easeOutQuad", "custom"}}

\* the script has called start() on one tween or on both, in either order
TickInit ==
    \E pool \in TickPool, order \in {<<1>>, <<2>>, <<1, 2>>, <<2, 1>>} :
        LET S0 == Tween_start([Fresh(pool) EXCEPT !.target = TweenTarget0], order[1])
        IN  Becomes0(IF Len(order) = 1 THEN S0 ELSE Tween_start(S0, order[2]))

\* one frame of the animation loop: Scene.update(dt) with dt > 0; the frames
\* are counted up to MaxSteps
Tick ==
    \E dt \in 1..MaxDt :
        LET R == Scene_update(Call, QI(dt))
        IN  /\ target' = R.target
            /\ tweens' = R.tweens
            /\ tl' = R.tl
            /\ activeTweens' = R.activeTweens
            /\ ev' = R.ev
            /\ call' = [n |-> Min(call.n + 1, MaxSteps), name |-> "sceneUpdate",
                        arg |-> [i |-> 0, p |-> QI(dt)], fresh |-> FALSE]

\* the animation loop keeps requesting frames: a frame is always possible (one
\* with another dt than the last changes the state), and frames never cease
SpecTick == TickInit /\ [][Tick]_vars /\ []<><<Tick>>_vars

\* ------------------------------------------------------------------------
\* A looping timeline
\* ------------------------------------------------------------------------
\* a script has built a timeline of two entries and called setLoop(true)
LoopInit ==
    \E pool \in TweenPool, first \in TweenIds, s1, s2 \in 0..(MaxTime - 1) :
        Becomes0(Timeline_setLoop(
                     Timeline_add(Timeline_add(Fresh(pool), first, s1),
                                  CHOOSE j \in TweenIds : j # first, s2), TRUE))

SpecLoop == LoopInit /\ [][FailNext]_vars

\* ------------------------------------------------------------------------
\* Two standalone tweens, one bound to a field of the other's property
\* ------------------------------------------------------------------------
\* tween 1 animates the Vec2 p or the list l over 2 ticks; tween 2 animates
\* the number p.x or l.0 to 8 over 1 tick
SharedPool ==
    {[i \in TweenIds |->
        IF i = 1 THEN NewTween(<<kind>>, EndOf(kind), 2, "linear", TRUE)
        ELSE NewTween(<<kind, IF kind = "p" THEN "x" ELSE "0">>, N(8), 1, "linear", TRUE)] :
     kind \in {"p", "l"}}

SharedInit ==
    \E pool \in SharedPool : Becomes0([Fresh(pool) EXCEPT !.target = TweenTarget0])

SpecShared == SharedInit /\ [][TweenNext]_vars

\* ------------------------------------------------------------------------
\* Standalone tweens whose completion callback starts a tween
\* ------------------------------------------------------------------------
\* tween 1 animates x to 4 over 2 ticks, tween 2 animates y to 8 over 1 tick;
\* the completion callback of one of them calls start() on a tween
CallbackPool ==
    {[i \in TweenIds |->
        [NewTween(IF i = 1 THEN <<"x">> ELSE <<"y">>, N(4 * i), 3 - i, "linear", TRUE)
            EXCEPT !.onComplete = IF i = from THEN to ELSE 0]] :
     from \in TweenIds, to \in TweenIds}

CallbackInit == \E pool \in CallbackPool : Becomes0(Fresh(pool))

SpecCallback == CallbackInit /\ [][TweenNext]_vars

\* ------------------------------------------------------------------------
\* Properties
\* ------------------------------------------------------------------------
SeekTimes == 0..(MaxTime + 1)

Fired(events, name) == {k \in DOMAIN events : events[k].e = name}

\* the state after seek(t) called on S, with the log of that call alone
SeekAt(S, t) == Timeline_seek([S EXCEPT !.ev = <<>>], t)

\* entries that animate the same property never have overlapping windows (two
\* schedulers writing one property at one time is the caller's responsibility)
NoConflict(S) ==
    \A j, k \in DOMAIN S.tl.tweensWithMeta :
        LET a == S.tl.tweensWithMeta[j]
            b == S.tl.tweensWithMeta[k]
        IN  j # k /\ S.tweens[a.tween].propertyPath = S.tweens[b.tween].propertyPath
            => \/ a.startTime + S.tweens[a.tween].duration <= b.startTime
               \/ b.startTime + S.tweens[b.tween].duration <= a.startTime

\* C1: seek(t) called a second time with the same t leaves every bound property
\* as the first call left it and fires no completion callback (checked for the
\* timelines whose entries on one property have windows that do not overlap)
C1_SeekTwiceIsIdempotent ==
    NoConflict(Cur) =>
        \A t \in SeekTimes :
            LET A == SeekAt(Cur, t)
                B == SeekAt(A, t)
            IN  B.target = A.target /\ Fired(B.ev, "onComplete") = {}

\* C2: a tween's completion callback fires at most once between two start()
\* calls of that tween, however the play-head is moved
C2_CompletionOncePerStart == \A i \in TweenIds : tweens[i].completions <= 1

\* the state after seek(from), seek(from + 1), ..., seek(upto) called on S
RECURSIVE PassEnd(_, _, _)
PassEnd(S, from, upto) ==
    IF from > upto THEN S ELSE PassEnd(SeekAt(S, from), from + 1, upto)

\* the value at path after each of seek(from), ..., seek(upto) called on S
RECURSIVE PassValues(_, _, _, _)
PassValues(S, path, from, upto) ==
    IF from > upto THEN <<>>
    ELSE LET A == SeekAt(S, from)
         IN  <<getDeepProperty(A.target, path)>> \o PassValues(A, path, from + 1, upto)

\* C3: once the forward pass has completed an entry, seeking to a time before
\* its startTime and passing forward through its window again gives its
\* property, at every play-head position, the value of the first pass
C3_ReplayAfterSeekBack ==
    (Untouched(Cur) /\ NoConflict(Cur)) =>
        \A j \in DOMAIN tl.tweensWithMeta :
            LET item == tl.tweensWithMeta[j]
                path == tweens[item.tween].propertyPath
                last == item.startTime + tweens[item.tween].duration
                done == PassEnd(Cur, 0, tl.duration)
            IN  \A back \in 0..(item.startTime - 1) :
                    PassValues(SeekAt(done, back), path, item.startTime, last)
                        = PassValues(PassEnd(Cur, 0, item.startTime - 1), path,
                                     item.startTime, last)

\* lifecycle of entry j: its activation flag and whether its tween is active
Lifecycle(S, j) ==
    <<S.tl.tweensWithMeta[j].hasStartedInternal,
      S.tweens[S.tl.tweensWithMeta[j].tween].isActive>>

\* C4: update(dt) that brings a playing timeline to play-head T < duration
\* leaves every entry in the lifecycle state and every property at the value
\* that seek(T) gives from the same state
C4_UpdateMatchesSeek ==
    (tl.isPlaying /\ NoConflict(Cur)) =>
        \A dt \in 0..MaxDt :
            LET T == tl.currentTime + dt * tl.timeScale
                U == Timeline_update(Call, dt)
                K == SeekAt(Cur, T)
            IN  T < tl.duration =>
                    /\ U.target = K.target
                    /\ \A j \in DOMAIN tl.tweensWithMeta : Lifecycle(U, j) = Lifecycle(K, j)

\* C5: after every Timeline operation 0 <= currentTime <= duration
C5_CurrentTimeWithinDuration ==
    ~tl.isNaN /\ 0 <= tl.currentTime /\ tl.currentTime <= tl.duration

\* C8: on an untouched looping timeline of duration D > 0, play() and one
\* update that advances the play-head by D + e (0 <= e < D) give the state that
\* playFromStart() and an update advancing it by e give
C8_LoopWrapMatchesRestart ==
    (Untouched(Cur) /\ tl.loop /\ tl.duration > 0 /\ tl.timeScale = 1) =>
        \A e \in 0..(tl.duration - 1) :
            LET A == Timeline_update(Timeline_play(Call), tl.duration + e)
                B == Timeline_update(Timeline_playFromStart(Call), e)
            IN  A.tl = B.tl /\ A.tweens = B.tweens /\ A.target = B.target

\* C8 is reached: an update of an untouched, playing, looping timeline has
\* wrapped and left a tween active in the new cycle
C8_Witness ==
    /\ call.name = "update" /\ call.fresh /\ tl.loop /\ tl.isPlaying
    /\ tl.timeScale = 1 /\ tl.duration > 0 /\ call.arg > tl.duration
    /\ tl.currentTime = call.arg - tl.duration
    /\ \E i \in TweenIds : tweens[i].isActive

\* C9: the update that brings a playing, non-looping timeline to its end stops
\* it and calls the timeline's completion callback once; no other update calls
\* it, and only play() or playFromStart() make the timeline play again
C9_TimelineCompletesOnce ==
    [][/\ call'.name = "update" =>
            IF tl.isPlaying /\ ~tl.loop
               /\ tl.currentTime + call'.arg * tl.timeScale >= tl.duration
            THEN ~tl'.isPlaying /\ Cardinality(Fired(ev', "timelineComplete")) = 1
            ELSE Fired(ev', "timelineComplete") = {}
       /\ (~tl.isPlaying /\ tl'.isPlaying) => call'.name \in {"play", "playFromStart"}
      ]_vars

\* C9 is reached: an update has just ended the playback
C9_Witness ==
    /\ call.name = "update" /\ ~tl.isPlaying /\ ~tl.loop
    /\ tl.currentTime >= tl.duration
    /\ Cardinality(Fired(ev, "timelineComplete")) = 1

\* C6: duration is the largest startTime + tween.duration over the entries
\* the timeline holds, and 0 when it holds none
C6_DurationIsMaxEnd == tl.duration = MaxEnd(tl.tweensWithMeta, tweens, 0)

\* offset + the sum of (duration + gap) over the first k tweens of the list
RECURSIVE MarkerAfter(_, _, _, _)
MarkerAfter(tws, k, offset, gap) ==
    IF k = 0 THEN offset
    ELSE MarkerAfter(tws, k - 1, offset, gap) + BuildPool[tws[k]].duration + gap

\* C10: sequence(tweens, {offset, gap}) starts its k-th tween at offset + the
\* sum of (duration + gap) over the tweens before it, for every offset and gap
\* the caller passes; a left-out offset is the duration at the call
C10_SequenceStartTimes ==
    \A tws \in TweenLists, offset \in Offsets, gap \in Gaps :
        LET R == Timeline_sequence(Cur, tws, offset, gap)
            n == Len(tl.tweensWithMeta)
            off == IF offset.given THEN offset.v ELSE tl.duration
            g == IF gap.given THEN gap.v ELSE 0
        IN  \A k \in DOMAIN tws :
                R.tl.tweensWithMeta[n + k].startTime = MarkerAfter(tws, k - 1, off, g)

\* tween i has completed in R: the property holds the endValue it had in the
\* state the call started from, and the tween is no longer active
Completed(R, i) ==
    /\ getDeepProperty(R.target, tweens[i].propertyPath) = tweens[i].endValue
    /\ ~R.tweens[i].isActive

\* C7: setProgress(p) with p >= 1, and an update of a standalone tween that
\* brings elapsedTime to duration or beyond, applied to an active tween on a
\* number, Vec2, list or color, leave the property equal to endValue and the
\* tween inactive, whatever the easing function returns at 1
C7_EndValueOnCompletion ==
    \A i \in TweenIds :
        (tweens[i].isActive
         /\ UpdateBranch(tweens[i]) \in {"number", "Vec2", "array", "color"}) =>
            /\ \A k \in 2..MaxDt : Completed(Tween_setProgress(Call, i, Q(k, 2)), i)
            /\ \A dt \in 0..MaxDt :
                  (/\ ~tweens[i].managedByTimeline
                   /\ QLe(QI(tweens[i].duration), QAdd(tweens[i].elapsedTime, QI(dt))))
                  => Completed(Tween_update(Call, i, QI(dt)), i)

\* C7 is reached: setProgress(p), p >= 1, or an update has just completed a
\* tween whose easing overshoots; its last interpolated write was not endValue
C7_Witness ==
    /\ call.name \in {"setProgress", "tweenUpdate", "sceneUpdate"}
    /\ \E i \in TweenIds :
          /\ tweens[i].easingFn = "custom"
          /\ \E k \in Fired(ev, "write") : ev[k].i = i /\ ev[k].v # tweens[i].endValue
          /\ \E k \in Fired(ev, "final") : ev[k].i = i
          /\ Completed(Cur, i)

\* C11: parallel(tweens, {offset}) starts every tween of the list at the offset
\* the caller passes, for every offset it passes; a left-out offset is the
\* duration the timeline had before the call
C11_ParallelStartTimes ==
    \A offset \in Offsets :
        LET R == Timeline_parallel(Cur, <<1, 2>>, offset)
            n == Len(tl.tweensWithMeta)
            off == IF offset.given THEN offset.v ELSE tl.duration
        IN  \A k \in 1..2 : R.tl.tweensWithMeta[n + k].startTime = off

\* entry j is the only entry of S that animates its property
Alone(S, j) ==
    \A k \in DOMAIN S.tl.tweensWithMeta :
        k # j => S.tweens[S.tl.tweensWithMeta[k].tween].propertyPath
                    # S.tweens[S.tl.tweensWithMeta[j].tween].propertyPath

\* every entry of S is where the window rule puts it at the play-head T of S:
\* never started when T < s, active (and not completed before) with elapsedTime
\* T - s when s <= T < s + d, completed once (its own property at endValue) when T >= s + d
PlayedTo(S) ==
    /\ ~S.tl.isNaN
    /\ \A j \in DOMAIN S.tl.tweensWithMeta :
          LET item == S.tl.tweensWithMeta[j]
              tw == S.tweens[item.tween]
              T == S.tl.currentTime
          IN  IF T < item.startTime
              THEN ~item.hasStartedInternal /\ ~tw.isActive /\ tw.rawStartValue = Null
              ELSE IF T < item.startTime + tw.duration
                   THEN /\ item.hasStartedInternal /\ tw.isActive /\ tw.completions = 0
                        /\ QDiv(tw.elapsedTime, QI(tw.duration))
                              = Q(T - item.startTime, tw.duration)
                   ELSE /\ item.hasStartedInternal /\ ~tw.isActive /\ tw.completions = 1
                        /\ Alone(S, j) =>
                              getDeepProperty(S.target, tw.propertyPath) = tw.endValue

\* the step to play-head T jumps over no whole window: every window that ends
\* at or before T has been entered by an earlier update
NoWindowJumped(S, T) ==
    \A j \in DOMAIN S.tl.tweensWithMeta :
        LET item == S.tl.tweensWithMeta[j]
        IN  T >= item.startTime + S.tweens[item.tween].duration => item.hasStartedInternal

\* C12: in forward playback by update calls that jump over no whole window,
\* after each update every entry is where the window rule puts it, and the
\* property of an entry not yet reached is left as it was
C12_ForwardPlaybackFollowsWindows ==
    (tl.isPlaying /\ ~tl.loop /\ (Untouched(Cur) \/ PlayedTo(Cur))) =>
        \A dt \in 0..MaxDt :
            LET T == tl.currentTime + dt * tl.timeScale
                U == Timeline_update(Call, dt)
            IN  NoWindowJumped(Cur, T) =>
                    /\ PlayedTo(U)
                    /\ U.tl.currentTime = T
                    /\ \A j \in DOMAIN tl.tweensWithMeta :
                          LET item == tl.tweensWithMeta[j]
                              path == tweens[item.tween].propertyPath
                          IN  (T < item.startTime /\ Alone(Cur, j)) =>
                                  getDeepProperty(U.target, path)
                                      = getDeepProperty(target, path)

\* C12 is reached: an update of a forward playback has completed one entry and
\* left another one active part-way through its window
C12_Witness ==
    /\ call.name = "update" /\ ~tl.loop /\ PlayedTo(Cur)
    /\ \E j, k \in DOMAIN tl.tweensWithMeta :
          /\ \E n \in Fired(ev, "onComplete") : ev[n].i = tl.tweensWithMeta[j].tween
          /\ tweens[tl.tweensWithMeta[k].tween].isActive
          /\ tl.currentTime > tl.tweensWithMeta[k].startTime

\* the completion callbacks of tween i among the events
CompletionsOf(events, i) == {n \in Fired(events, "onComplete") : events[n].i = i}

\* C13: on an active number tween with linear easing, captured start value a
\* and end value b, setProgress(p) with 0 <= p <= 1 leaves the property at
\* a + (b - a) * p; the first setProgress(1) since start() fires the completion
\* callback once, a smaller p does not fire it, and a repeated setProgress(1)
\* does not fire it again
C13_LinearScalarSetProgress ==
    \A i \in TweenIds :
        (/\ tweens[i].isActive /\ tweens[i].completions = 0
         /\ tweens[i].easingFn = "linear" /\ UpdateBranch(tweens[i]) = "number") =>
            \A k \in 0..2 :
                LET p == Q(k, 2)
                    a == tweens[i].startValue.q
                    b == tweens[i].endValue.q
                    R == Tween_setProgress(Call, i, p)
                IN  /\ getDeepProperty(R.target, tweens[i].propertyPath)
                          = Num(QAdd(a, QMul(QSub(b, a), p)))
                    /\ Cardinality(CompletionsOf(R.ev, i)) = (IF k = 2 THEN 1 ELSE 0)
                    /\ k = 2 =>
                          /\ R.tweens[i].completions = 1
                          /\ CompletionsOf(
                                 Tween_setProgress([R EXCEPT !.ev = <<>>], i, p).ev, i) = {}

\* C13 is reached: setProgress(1) has just completed a linear number tween
\* that was part-way, for the first time since its start()
C13_Witness ==
    /\ call.name = "setProgress" /\ call.arg.p = QI(1)
    /\ tweens[call.arg.i].easingFn = "linear"
    /\ UpdateBranch(tweens[call.arg.i]) = "number"
    /\ Cardinality(CompletionsOf(ev, call.arg.i)) = 1
    /\ tweens[call.arg.i].completions = 1
    /\ target.f.x = tweens[call.arg.i].endValue
    /\ tweens[call.arg.i].startValue # tweens[call.arg.i].endValue

\* start() of tween i would fail or throw in S
StartFails(S, i) ==
    CapturedStart(getDeepProperty(S.target, S.tweens[i].propertyPath),
                  S.tweens[i].endValue, S.tweens[i].propertyPath) \in {Undefined, Thrown}

\* S without the entries of tween i (the duration of the timeline is kept)
Without(S, i) ==
    [S EXCEPT !.tl.tweensWithMeta = SelectSeq(@, LAMBDA item : item.tween # i)]

\* in R, the outcome of a call on S, tween i has written nothing and fired no
\* callback, nothing was thrown, and the other tween, the target and the
\* timeline are as in V, the outcome of the same call without the entry of i
Isolated(R, V, i) ==
    /\ ~Threw(R)
    /\ \A n \in DOMAIN R.ev : R.ev[n].i = i => R.ev[n].e = "start"
    /\ R.target = V.target
    /\ \A k \in TweenIds \ {i} : R.tweens[k] = V.tweens[k]
    /\ Without(R, i).tl = V.tl

\* C14: when the start() of one entry's tween fails, seek and update throw
\* nothing, the failing tween writes nothing and fires no callback, and the
\* sibling entry, the target and the timeline end as they do in the same
\* timeline without the failing entry
C14_FailingEntryIsIsolated ==
    \A i \in TweenIds :
        StartFails(Cur, i) =>
            /\ \A t \in SeekTimes :
                  Isolated(Timeline_seek(Call, t), Timeline_seek(Without(Call, i), t), i)
            /\ \A dt \in 0..MaxDt :
                  Isolated(Timeline_update(Call, dt), Timeline_update(Without(Call, i), dt), i)

\* the kind of animatable value v is: a number, a color, a point, a list of
\* points, a list of numbers or a keyed record
KindOf(v) ==
    CASE IsNumber(v) -> "Scalar"
      [] IsString(v) /\ parseColor(v).ok -> "Color"
      [] IsVec2(v) -> "Point"
      [] IsArray(v) /\ (\A j \in DOMAIN v.e : IsVec2(v.e[j])) /\ v.e # <<>> -> "PointList"
      [] IsArray(v) /\ (\A j \in DOMAIN v.e : IsNumber(v.e[j])) -> "NumericList"
      [] v.k = "object" -> "Record"
      [] OTHER -> "none"

\* the property of tween i resolves to no value, or its value and the end value
\* of the tween are of different kinds
Mismatched(S, i) ==
    LET raw == getDeepProperty(S.target, S.tweens[i].propertyPath)
    IN  /\ S.tweens[i].propertyPath # DummyPath
        /\ raw = Undefined \/ KindOf(raw) # KindOf(S.tweens[i].endValue)

\* C15: start() on a tween whose property is missing or whose start and end
\* values are of different kinds returns with the tween inactive and the
\* target unchanged, and an update after that writes nothing
C15_MismatchedStartLeavesTargetAlone ==
    \A i \in TweenIds :
        (Mismatched(Cur, i) /\ ~tweens[i].isActive) =>
            LET R == Tween_start(Call, i)
            IN  /\ ~R.tweens[i].isActive
                /\ R.target = target
                /\ \A dt \in 0..MaxDt :
                      LET U == Tween_update([R EXCEPT !.ev = <<>>], i, QI(dt))
                      IN  U.target = target /\ U.ev = <<>>

\* the value of the property of tween i and its end value are lists of
\* different lengths
LengthsDiffer(S, i) ==
    LET raw == getDeepProperty(S.target, S.tweens[i].propertyPath)
    IN  IsArray(raw) /\ IsArray(S.tweens[i].endValue)
        /\ Len(raw.e) # Len(S.tweens[i].endValue.e)

\* C16: start() on a tween between two lists of different lengths leaves the
\* tween inactive, and a setProgress or update after it leaves a list in the
\* bound property
C16_ListLengthMismatchRefused ==
    \A i \in TweenIds :
        (LengthsDiffer(Cur, i) /\ ~tweens[i].isActive) =>
            LET R == Tween_start(Call, i)
                path == tweens[i].propertyPath
            IN  /\ ~R.tweens[i].isActive
                /\ \A k \in 0..MaxDt :
                      /\ IsArray(getDeepProperty(Tween_setProgress(R, i, Q(k, 2)).target, path))
                      /\ IsArray(getDeepProperty(Tween_update(R, i, QI(k)).target, path))

\* C17: a tween whose duration is not positive is inert: it is never active,
\* no timeline evaluation and no start(), setProgress() or update() call makes
\* it active or lets it write to the target
C17_InvalidDurationIsInert ==
    \A i \in TweenIds :
        tweens[i].duration <= 0 =>
            /\ ~tweens[i].isActive
            /\ \A n \in DOMAIN ev : ev[n].i # i \/ ev[n].e = "start"
            /\ getDeepProperty(target, tweens[i].propertyPath)
                  = getDeepProperty(Target0, tweens[i].propertyPath)
            /\ LET R == Tween_start(Call, i)
               IN  /\ ~R.tweens[i].isActive
                   /\ \A k \in 0..MaxDt :
                         /\ Tween_setProgress(R, i, Q(k, 2)).target = target
                         /\ Tween_update(R, i, QI(k)).target = target

\* C18: add() called with a value that is no Tween changes nothing (entries,
\* duration, currentTime, isPlaying, tweens, target), and no entry of the
\* timeline ever holds such a value for update or seek to evaluate
C18_NonTweenRejected ==
    /\ \A j \in DOMAIN tl.tweensWithMeta : tl.tweensWithMeta[j].tween \in TweenIds
    /\ \A s \in 0..MaxTime :
          LET R == Timeline_add(Call, NotATween, s)
          IN  R.tl = tl /\ R.tweens = tweens /\ R.target = target

\* C18 is reached: add() has just been called with a value that is no Tween
\* on a timeline that holds entries
C18_Witness ==
    /\ call.name = "add" /\ call.arg.tween = NotATween
    /\ tl.tweensWithMeta # <<>>
    /\ tl.duration = MaxEnd(tl.tweensWithMeta, tweens, 0)

\* C19: when setProgress(1) or an update completes an active tween between
\* keyed records, every key of the end record holds its end value in the bound
\* record, also a key that the captured start record does not have
C19_RecordCompletionSetsEveryEndKey ==
    \A i \in TweenIds :
        (tweens[i].isActive /\ tweens[i].endValue.k = "object"
         /\ UpdateBranch(tweens[i]) = "object") =>
            LET R == Tween_setProgress(Call, i, QI(1))
                bound == getDeepProperty(R.target, tweens[i].propertyPath)
            IN  /\ ~R.tweens[i].isActive
                /\ \A key \in Keys(tweens[i].endValue) :
                      Prop(bound, key) = Prop(tweens[i].endValue, key)

\* S with the entries of its timeline held in the opposite order
Reordered(S) ==
    [S EXCEPT !.tl.tweensWithMeta =
                  [j \in DOMAIN @ |-> @[Len(@) + 1 - j]]]

\* the same property values and the same tween states (captured start values,
\* elapsed time, activity)
SameOutcome(U, V) == U.target = V.target /\ U.tweens = V.tweens

\* C20: a timeline on which nothing has been evaluated yet gives, for every
\* seek and for play() followed by every update, the property values and the
\* captured start values that the timeline holding the same entries in the
\* opposite order gives (entries on one property have windows that do not
\* overlap)
C20_InsertionOrderIrrelevant ==
    (Untouched(Cur) /\ NoConflict(Cur)) =>
        /\ \A t \in SeekTimes :
              SameOutcome(Timeline_seek(Call, t), Timeline_seek(Reordered(Call), t))
        /\ \A dt \in 0..MaxDt :
              SameOutcome(Timeline_update(Timeline_play(Call), dt),
                          Timeline_update(Timeline_play(Reordered(Call)), dt))

\* C21: playFromStart() leaves currentTime at 0, and playFromStart() and
\* resetAllTweensState() leave every entry unstarted (flag cleared, tween
\* inactive) and every bound property at the value it had before the timeline
\* animated it, also when entries animate one property one after another
C21_RestartRestoresInitialValues ==
    NoConflict(Cur) =>
        LET P == Timeline_playFromStart(Call)
            R == Timeline_resetAllTweensState(Call)
        IN  /\ P.tl.currentTime = 0 /\ ~P.tl.isNaN /\ P.tl.isPlaying
            /\ \A j \in DOMAIN tl.tweensWithMeta :
                  LET path == tweens[tl.tweensWithMeta[j].tween].propertyPath
                  IN  /\ Lifecycle(P, j) = <<FALSE, FALSE>>
                      /\ Lifecycle(R, j) = <<FALSE, FALSE>>
                      /\ getDeepProperty(P.target, path) = getDeepProperty(Target0, path)
                      /\ getDeepProperty(R.target, path) = getDeepProperty(Target0, path)

\* C22: after seek(0), from every state, the property of every entry that is
\* the only one on its property and has captured a start value holds that
\* captured value, also when the entry starts at 0 and had completed
C22_SeekZeroResets ==
    LET R == SeekAt(Cur, 0)
    IN  \A j \in DOMAIN tl.tweensWithMeta :
            LET tw == R.tweens[tl.tweensWithMeta[j].tween]
            IN  (Alone(Cur, j) /\ tw.rawStartValue # Null) =>
                    getDeepProperty(R.target, tw.propertyPath) = tw.rawStartValue

\* C23: play() sets isPlaying and changes nothing else: currentTime, the
\* activation flag of every entry, every tween and the target stay as they
\* were, also on a non-looping timeline whose play-head is at its end
C23_PlayOnlySetsIsPlaying ==
    LET R == Timeline_play(Call)
    IN  /\ R.tl = [tl EXCEPT !.isPlaying = TRUE]
        /\ R.tweens = tweens
        /\ R.target = target

\* tween i is held by an entry of the timeline of S
InTimeline(S, i) == \E j \in DOMAIN S.tl.tweensWithMeta : S.tl.tweensWithMeta[j].tween = i

\* C24: update(dt) called on a tween that has been added to a timeline, by the
\* script or by Scene.update for a tween start() had registered before it was
\* added, leaves its elapsedTime as it was, for every dt
C24_BoundTweenKeepsItsClock ==
    \A i \in TweenIds :
        InTimeline(Cur, i) =>
            \A dt \in 0..MaxDt :
                /\ Tween_update(Call, i, QI(dt)).tweens[i].elapsedTime = tweens[i].elapsedTime
                /\ Scene_update(Call, QI(dt)).tweens[i].elapsedTime = tweens[i].elapsedTime

\* C24 is reached: Scene.update with dt > 0 has just updated an active tween
\* that start() had registered with the Scene before it was added to the
\* timeline; the tween wrote its property and its elapsedTime is still 0
C24_Witness ==
    /\ call.name = "sceneUpdate" /\ call.arg.p # QI(0)
    /\ \E i \in TweenIds :
          /\ InTimeline(Cur, i) /\ Includes(activeTweens, i)
          /\ tweens[i].isActive /\ tweens[i].elapsedTime = QI(0)
          /\ \E n \in Fired(ev, "write") : ev[n].i = i

\* tween i has completed in this tick: it is inactive, off the Scene's list,
\* its property holds endValue and its completion callback has fired once
DoneInTick(i) ==
    /\ ~tweens[i].isActive /\ ~Includes(activeTweens, i)
    /\ getDeepProperty(target, tweens[i].propertyPath) = tweens[i].endValue
    /\ Cardinality(CompletionsOf(ev, i)) = 1 /\ tweens[i].completions = 1

\* C25: each tick with dt > 0 adds dt to the elapsedTime of a started
\* standalone tween on the Scene's list; the tick that brings elapsedTime to
\* duration or beyond completes it (property at endValue, callback fired once,
\* tween off the list), no tick touches it after that, and every started tween
\* is completed by some tick
C25_SceneTicksCompleteTween ==
    /\ [][\A i \in TweenIds :
            IF Includes(activeTweens, i)
            THEN /\ tweens'[i].elapsedTime = QAdd(tweens[i].elapsedTime, call'.arg.p)
                 /\ IF QLe(QI(tweens[i].duration), tweens'[i].elapsedTime)
                    THEN DoneInTick(i)'
                    ELSE /\ tweens'[i].isActive /\ Includes(activeTweens', i)
                         /\ CompletionsOf(ev', i) = {}
            ELSE /\ tweens'[i] = tweens[i]
                 /\ \A n \in DOMAIN ev' : ev'[n].i # i
                 /\ ~Includes(activeTweens', i)
        ]_vars
    /\ \A i \in TweenIds : Includes(activeTweens, i) ~> DoneInTick(i)

\* C25 is reached: a tick has completed a tween that an earlier tick had
\* advanced part-way, and the tween is off the list
C25_Witness ==
    /\ call.n >= 2 /\ DoneInTick(1)
    /\ tweens[1].elapsedTime = QI(tweens[1].duration)
    /\ \E n \in Fired(ev, "write") : ev[n].i = 1

\* C26: setProgress(1) called on a tween that has completed and is inactive
\* invokes neither the completion callback nor the progress callback and
\* leaves the target as it is, however often it is repeated
C26_SetProgressOneAfterCompletion ==
    \A i \in TweenIds :
        (~tweens[i].isActive /\ tweens[i].completions >= 1) =>
            LET R == Tween_setProgress(Call, i, QI(1))
                R2 == Tween_setProgress(R, i, QI(1))
            IN  /\ R.ev = <<>> /\ R.target = target /\ ~R.tweens[i].isActive
                /\ R2.ev = <<>> /\ R2.target = target
                /\ R.tweens[i].completions = tweens[i].completions

\* C26 is reached: setProgress(1) has just been called on a tween that had
\* completed; it fired nothing and the property still holds the end value
C26_Witness ==
    /\ call.name = "setProgress" /\ call.arg.p = QI(1) /\ ev = <<>>
    /\ ~tweens[call.arg.i].isActive /\ tweens[call.arg.i].completions = 1
    /\ tweens[call.arg.i].startValue # tweens[call.arg.i].endValue
    /\ getDeepProperty(target, tweens[call.arg.i].propertyPath) = tweens[call.arg.i].endValue

\* C27: seek(t) that lands at or beyond the end of the window of an entry not
\* yet activated calls start() and then setProgress(1) on its tween: start()
\* runs before the final write of endValue, the completion callback follows
\* and fires once, the entry is marked activated and the tween is inactive;
\* the property holds endValue when no other entry animates it
C27_SeekCatchesUpSkippedEntry ==
    \A t \in SeekTimes :
        LET R == SeekAt(Cur, t)
        IN  \A j \in DOMAIN tl.tweensWithMeta :
                LET item == tl.tweensWithMeta[j]
                    i == item.tween
                IN  (/\ ~item.hasStartedInternal
                     /\ Min(t, tl.duration) >= item.startTime + tweens[i].duration) =>
                        /\ R.tl.tweensWithMeta[j].hasStartedInternal
                        /\ ~R.tweens[i].isActive
                        /\ R.tweens[i].completions = 1
                        /\ Cardinality(CompletionsOf(R.ev, i)) = 1
                        /\ LET at(e) == {n \in DOMAIN R.ev :
                                            R.ev[n].e = e /\ R.ev[n].i = i}
                           IN  \E a \in at("start"), b \in at("final"),
                                  c \in at("onComplete") :
                                   a < b /\ b < c /\ R.ev[b].v = tweens[i].endValue
                        /\ Alone(Cur, j) =>
                              getDeepProperty(R.target, tweens[i].propertyPath)
                                  = tweens[i].endValue

\* C27 is reached: a seek on an untouched timeline has landed beyond the
\* window of an entry, started its tween and completed it
C27_Witness ==
    /\ call.name = "seek" /\ call.fresh
    /\ \E j \in DOMAIN tl.tweensWithMeta :
          LET i == tl.tweensWithMeta[j].tween
          IN  /\ tl.currentTime > tl.tweensWithMeta[j].startTime + tweens[i].duration
              /\ tl.tweensWithMeta[j].hasStartedInternal
              /\ \E n \in Fired(ev, "start") : ev[n].i = i
              /\ Cardinality(CompletionsOf(ev, i)) = 1
              /\ Alone(Cur, j)
              /\ getDeepProperty(target, tweens[i].propertyPath) = tweens[i].endValue

\* C28: after seek(t) with s <= t < s + d for an entry, whatever state the
\* entry was in, its tween is active and its property (animated by no other
\* entry) is a + (b - a) * easing((t - s) / d) for the captured start value a
\* and the end value b; at t = s it is a
C28_SeekInsideWindowInterpolates ==
    \A t \in SeekTimes :
        LET R == SeekAt(Cur, t)
        IN  \A j \in DOMAIN tl.tweensWithMeta :
                LET item == tl.tweensWithMeta[j]
                    tw == R.tweens[item.tween]
                    T == R.tl.currentTime
                    a == tw.startValue.q
                    b == tw.endValue.q
                IN  (/\ item.startTime <= T /\ T < item.startTime + tw.duration
                     /\ Alone(Cur, j)) =>
                        /\ tw.isActive
                        /\ getDeepProperty(R.target, tw.propertyPath)
                              = Num(QAdd(a, QMul(QSub(b, a),
                                                 easingFn(tw.easingFn,
                                                          Q(T - item.startTime, tw.duration)))))

\* C29: one update call that takes the play-head of a playing, looping
\* timeline to its duration or beyond fires, the evaluation at the wrapped time
\* included, the completion callback of each entry's tween at most once, also
\* for an entry whose window starts at 0
C29_WrapFiresCompletionOnce ==
    (tl.loop /\ tl.isPlaying) =>
        \A dt \in 0..MaxDt :
            tl.currentTime + dt * tl.timeScale >= tl.duration =>
                \A i \in TweenIds :
                    Cardinality(CompletionsOf(Timeline_update(Call, dt).ev, i)) <= 1

\* C29 is reached: an update of a looping timeline has completed an entry whose
\* window starts at 0, wrapped, reset the entry and started it again at the
\* wrapped time
C29_Witness ==
    /\ call.name = "update" /\ tl.loop /\ tl.isPlaying
    /\ \E j \in DOMAIN tl.tweensWithMeta :
          LET i == tl.tweensWithMeta[j].tween
          IN  /\ tl.tweensWithMeta[j].startTime = 0
              /\ Cardinality(CompletionsOf(ev, i)) = 1
              /\ \E a, b, c \in DOMAIN ev :
                    /\ a < b /\ b < c
                    /\ ev[a].e = "onComplete" /\ ev[a].i = i
                    /\ ev[b].e = "reset" /\ ev[b].i = i
                    /\ ev[c].e = "start" /\ ev[c].i = i
              /\ tweens[i].isActive

\* C30: when entry A precedes entry B in the container, A's tween is active,
\* B is not yet activated, and one update or seek call moves the play-head to
\* a time T at or beyond A's end and inside B's window, then in that call A's
\* final write and A's completion callback come before B's start(); when both
\* animate one property, B's captured start value is A's endValue
C30_ContainerOrderWithinCall ==
    \A j, k \in DOMAIN tl.tweensWithMeta :
        LET A == tl.tweensWithMeta[j]
            B == tl.tweensWithMeta[k]
            ordered(R, T) ==
                (/\ T >= A.startTime + tweens[A.tween].duration
                 /\ T >= B.startTime
                 /\ T < B.startTime + tweens[B.tween].duration) =>
                    /\ LET at(e, i) == {n \in DOMAIN R.ev :
                                           R.ev[n].e = e /\ R.ev[n].i = i}
                       IN  \E a \in at("final", A.tween), b \in at("onComplete", A.tween),
                              c \in at("start", B.tween) : a < b /\ b < c
                    /\ tweens[A.tween].propertyPath = tweens[B.tween].propertyPath =>
                          R.tweens[B.tween].rawStartValue = tweens[A.tween].endValue
        IN  (j < k /\ Lifecycle(Cur, j) = <<TRUE, TRUE>> /\ ~B.hasStartedInternal) =>
                /\ \A t \in SeekTimes : ordered(SeekAt(Cur, t), t)
                /\ tl.isPlaying =>
                      \A dt \in 0..MaxDt :
                          ordered(Timeline_update(Call, dt),
                                  tl.currentTime + dt * tl.timeScale)

\* C30 is reached: an update has completed the entry that comes first in the
\* container and then started the second one on the same property, which
\* captured the end value of the first
C30_Witness ==
    /\ call.name = "update" /\ Len(tl.tweensWithMeta) = 2
    /\ LET A == tl.tweensWithMeta[1]
           B == tl.tweensWithMeta[2]
       IN  /\ tweens[A.tween].propertyPath = tweens[B.tween].propertyPath
           /\ \E a, c \in DOMAIN ev :
                 /\ a < c
                 /\ ev[a].e = "onComplete" /\ ev[a].i = A.tween
                 /\ ev[c].e = "start" /\ ev[c].i = B.tween
           /\ tweens[B.tween].isActive
           /\ tweens[B.tween].rawStartValue = tweens[A.tween].endValue
           /\ tweens[A.tween].endValue # getDeepProperty(Target0, tweens[A.tween].propertyPath)

\* C31: one setProgress or update evaluation of an active tween has these
\* effects, in this order: the interpolated value is written, the progress
\* callback is called with that value and the progress p; when p >= 1, and
\* only then, endValue is written, the tween becomes inactive and the
\* completion callback is called last; an update of an inactive tween calls
\* no callback and writes nothing
C31_EffectOrderWithinEvaluation ==
    \A i \in TweenIds :
        LET inOrder(R, p) ==
                /\ Len(R.ev) = (IF QLe(QI(1), p) THEN 4 ELSE 2)
                /\ R.ev[1].e = "write" /\ R.ev[1].i = i /\ R.ev[1].p = p
                /\ R.ev[2] = [R.ev[1] EXCEPT !.e = "onUpdate"]
                /\ IF QLe(QI(1), p)
                   THEN /\ R.ev[3].e = "final" /\ R.ev[3].i = i
                        /\ R.ev[3].v = tweens[i].endValue
                        /\ R.ev[4].e = "onComplete" /\ R.ev[4].i = i
                        /\ ~R.tweens[i].isActive
                   ELSE /\ R.tweens[i].isActive
                        /\ getDeepProperty(R.target, tweens[i].propertyPath) = R.ev[1].v
        IN  IF tweens[i].isActive
            THEN /\ \A k \in 0..MaxDt :
                        inOrder(Tween_setProgress(Call, i, Q(k, 2)), QMin(Q(k, 2), QI(1)))
                 /\ \A dt \in 0..MaxDt :
                        LET U == Tween_update(Call, i, QI(dt))
                        IN  inOrder(U, QMin(QDiv(U.tweens[i].elapsedTime,
                                                 QI(tweens[i].duration)), QI(1)))
            ELSE \A dt \in 0..MaxDt :
                     LET U == Tween_update(Call, i, QI(dt))
                     IN  U.ev = <<>> /\ U.target = target

\* C31 is reached: setProgress(1) on an active tween whose easing overshoots
\* has written the interpolated value, called the progress callback, written
\* endValue and called the completion callback, in this order
C31_Witness ==
    /\ call.name = "setProgress" /\ call.arg.p = QI(1) /\ Len(ev) = 4
    /\ ev[1].e = "write" /\ ev[2].e = "onUpdate" /\ ev[3].e = "final"
    /\ ev[4].e = "onComplete"
    /\ ev[1].v # ev[3].v /\ ev[2].v = ev[1].v
    /\ ~tweens[call.arg.i].isActive

\* C32: start() called on a tween that has completed makes it active with
\* elapsedTime 0 and captures as start value what the bound property holds
\* at that moment
C32_RestartCapturesCurrentValue ==
    \A i \in TweenIds :
        (~tweens[i].isActive /\ tweens[i].completions >= 1) =>
            LET R == Tween_start(Call, i)
                held == getDeepProperty(target, tweens[i].propertyPath)
            IN  /\ R.tweens[i].isActive
                /\ R.tweens[i].elapsedTime = QI(0)
                /\ R.tweens[i].rawStartValue = held
                /\ R.tweens[i].startValue = held
                /\ R.target = target

\* C32 is reached: start() has just been called on a tween that had completed
\* at its end value; the tween is active again and its start value is that
\* end value, not the value the property had at first
C32_Witness ==
    /\ call.name = "start" /\ tweens[call.arg.i].isActive
    /\ tweens[call.arg.i].elapsedTime = QI(0)
    /\ tweens[call.arg.i].startValue = tweens[call.arg.i].endValue
    /\ tweens[call.arg.i].startValue
          # getDeepProperty(TweenTarget0, tweens[call.arg.i].propertyPath)

\* C33: resetToStart() leaves the tween inactive with elapsedTime 0 and calls
\* no callback; on a tween that start() has started it leaves the captured
\* start value in the bound property, on a tween never started it leaves the
\* target as it is
C33_ResetToStartRestores ==
    \A i \in TweenIds :
        LET R == Tween_resetToStart(Call, i)
        IN  /\ ~R.tweens[i].isActive
            /\ R.tweens[i].elapsedTime = QI(0)
            /\ Fired(R.ev, "onUpdate") = {} /\ Fired(R.ev, "onComplete") = {}
            /\ IF tweens[i].startValue # Null
               THEN getDeepProperty(R.target, tweens[i].propertyPath) = tweens[i].startValue
               ELSE R.target = target

\* C34: update(dt) on a timeline that is not playing (never played, paused, or
\* stopped at its end) changes nothing and fires nothing: the clock, the
\* entries, the tweens and the target are as before; in particular right after
\* pause(), and so, as the update leaves isPlaying alone, for every further
\* update until play() or playFromStart()
C34_UpdateWhileNotPlayingIsNoOp ==
    (call.name = "pause" \/ ~tl.isPlaying) =>
        \A dt \in 0..MaxDt : Timeline_update(Call, dt) = Call

\* C34 is reached: update(dt > 0) has just been called on a timeline that is
\* not playing and stands inside a tween's window, and nothing moved
C34_Witness ==
    /\ call.name = "update" /\ call.arg > 0
    /\ ~tl.isPlaying /\ ev = <<>>
    /\ tl.currentTime > 0 /\ tl.currentTime < tl.duration
    /\ \E i \in TweenIds : tweens[i].isActive /\ tweens[i].elapsedTime # QI(0)

\* C35: when an update of a forward playback stops a non-looping timeline at
\* its end and calls the completion callback, every entry has been started,
\* its tween has completed and is inactive, and the property of an entry that
\* is alone on it holds the endValue, whatever the step dt
C35_EndOfPlaybackCompletesEveryEntry ==
    (tl.isPlaying /\ ~tl.loop /\ (Untouched(Cur) \/ PlayedTo(Cur))) =>
        \A dt \in 0..MaxDt :
            LET U == Timeline_update(Call, dt)
            IN  Fired(U.ev, "timelineComplete") # {} =>
                    \A j \in DOMAIN U.tl.tweensWithMeta :
                        LET item == U.tl.tweensWithMeta[j]
                            tw == U.tweens[item.tween]
                        IN  /\ item.hasStartedInternal
                            /\ ~tw.isActive /\ tw.completions >= 1
                            /\ Alone(U, j) =>
                                  getDeepProperty(U.target, tw.propertyPath) = tw.endValue

\* C36: no operation changes a tween's endValue: the Vec2 or list tween keeps
\* the endValue it was constructed with, and once it has completed, playing it
\* again (start(), then setProgress(1)) leaves its property at that endValue,
\* whatever was written to a field of the property in between
C36_EndValueNeverChanges ==
    LET made == EndOf(tweens[1].propertyPath[1])
    IN  /\ tweens[1].endValue = made
        /\ tweens[1].completions >= 1 =>
              LET R == Tween_setProgress(Tween_start(Call, 1), 1, QI(1))
              IN  getDeepProperty(R.target, tweens[1].propertyPath) = made

\* C37: one Scene.update(dt) evaluates every tween that is active and in
\* activeTweens when the call begins exactly once; a tween that was not active
\* then and is started by a completion callback during the call is not
\* evaluated in the call; activeTweens holds no tween twice
C37_SceneUpdatesEachActiveTweenOnce ==
    /\ \A a, b \in DOMAIN activeTweens : activeTweens[a] = activeTweens[b] => a = b
    /\ \A dt \in 0..MaxDt :
          LET R == Scene_update(Call, QI(dt))
              \* the evaluations of tween i in the call (each one writes once)
              UpdatesOf(events, i) == {n \in Fired(events, "write") : events[n].i = i}
          IN  \A i \in TweenIds :
                  /\ (tweens[i].isActive /\ Includes(activeTweens, i)) =>
                         Cardinality(UpdatesOf(R.ev, i)) = 1
                  /\ (~tweens[i].isActive /\ \E n \in Fired(R.ev, "start") : R.ev[n].i = i) =>
                         UpdatesOf(R.ev, i) = {}

\* C38: on a looping timeline that is playing, update(dt) with dt >= 0 returns
\* with the play-head wrapped into the cycle: 0 <= currentTime < duration when
\* duration > 0, and currentTime = 0 when the timeline is empty (duration 0)
C38_LoopingUpdateWrapsIntoCycle ==
    (tl.loop /\ tl.isPlaying /\ ~tl.isNaN) =>
        \A dt \in 0..MaxDt :
            LET U == Timeline_update(Call, dt)
            IN  ~Threw(U) =>
                    /\ ~U.tl.isNaN
                    /\ IF tl.duration > 0
                       THEN U.tl.currentTime >= 0 /\ U.tl.currentTime < tl.duration
                       ELSE U.tl.currentTime = 0

====
